---- MODULE Spec2Model ----
(***************************************************************************)
(* A model of the cash-secured-put screener (src/screener.cpp): the        *)
(* Black-Scholes put pricer, the quality scorer, the per-contract filter   *)
(* of screen_ticker, the accumulation loop of main and the ranker of       *)
(* print_results; and of the trade loop of the executor                    *)
(* (src/executor.cpp).                                                     *)
(*                                                                         *)
(* Every C++ double is a fixed-point integer with three decimals (the      *)
(* value 2.5 is 2500), and the three IEEE-754 special values the code can  *)
(* produce are the integers NaN, PInf and NInf, which lie outside the      *)
(* range of every finite value of the model.  The arithmetic operators     *)
(* D... follow IEEE-754: NaN propagates, every ordered comparison with NaN *)
(* is false, x/0 is infinite, 0/0 and inf-inf are NaN.                     *)
(***************************************************************************)
EXTENDS Integers, Sequences, FiniteSets

\* One unit of a double: three decimals.
FP == 10 ^ 3

\* The IEEE-754 special values.
PInf == 2000000000
NInf == -2000000000
NaN == 2000000001

IsNaN(x) == x = NaN
IsInf(x) == x = PInf \/ x = NInf
IsFinite(x) == ~IsNaN(x) /\ ~IsInf(x)

\* Ordered comparisons of doubles: false as soon as one side is NaN.
DLt(a, b) == ~IsNaN(a) /\ ~IsNaN(b) /\ a < b
DGt(a, b) == DLt(b, a)
DLe(a, b) == ~IsNaN(a) /\ ~IsNaN(b) /\ a <= b
DGe(a, b) == DLe(b, a)

Sgn(x) == IF x > 0 THEN 1 ELSE IF x < 0 THEN -1 ELSE 0
Mag(x) == IF x < 0 THEN -x ELSE x

\* n / d for integers, d > 0, rounded to the nearest integer.
RDiv(n, d) == (2 * n + d) \div (2 * d)

DNeg(a) == IF IsNaN(a) THEN NaN ELSE -a
DAbs(a) == IF IsNaN(a) THEN NaN ELSE Mag(a)

DAdd(a, b) ==
    IF IsNaN(a) \/ IsNaN(b) THEN NaN
    ELSE IF IsInf(a) /\ IsInf(b) THEN (IF a = b THEN a ELSE NaN)
    ELSE IF IsInf(a) THEN a
    ELSE IF IsInf(b) THEN b
    ELSE a + b

DSub(a, b) == DAdd(a, DNeg(b))

\* a * b, both doubles.
DMul(a, b) ==
    IF IsNaN(a) \/ IsNaN(b) THEN NaN
    ELSE IF IsInf(a) \/ IsInf(b)
         THEN (IF a = 0 \/ b = 0 THEN NaN
               ELSE IF Sgn(a) * Sgn(b) > 0 THEN PInf ELSE NInf)
    ELSE Sgn(a) * Sgn(b) * RDiv(Mag(a) * Mag(b), FP)

\* a * k for a double a and an integer literal k.
DMulI(a, k) ==
    IF IsNaN(a) THEN NaN
    ELSE IF IsInf(a)
         THEN (IF k = 0 THEN NaN ELSE IF Sgn(a) * Sgn(k) > 0 THEN PInf ELSE NInf)
    ELSE a * k

\* a / b, both doubles.
DDiv(a, b) ==
    IF IsNaN(a) \/ IsNaN(b) THEN NaN
    ELSE IF IsInf(a) /\ IsInf(b) THEN NaN
    ELSE IF IsInf(a) THEN (IF Sgn(a) * Sgn(b) >= 0 THEN PInf ELSE NInf)
    ELSE IF IsInf(b) THEN 0
    ELSE IF b = 0 THEN (IF a = 0 THEN NaN ELSE IF a > 0 THEN PInf ELSE NInf)
    ELSE Sgn(a) * Sgn(b) * RDiv(Mag(a) * FP, Mag(b))

\* std::min(a, b) is (b < a) ? b : a.
DMin(a, b) == IF DLt(b, a) THEN b ELSE a
\* std::max(a, b) is (a < b) ? b : a.
DMax(a, b) == IF DLt(a, b) THEN b ELSE a

(***************************************************************************)
(* libm: std::sqrt, std::log and std::exp on fixed-point values.           *)
(***************************************************************************)
RECURSIVE ISqrtIter(_, _)
ISqrtIter(n, x) ==
    LET y == (x + n \div x) \div 2
    IN  IF y >= x THEN x ELSE ISqrtIter(n, y)

\* The integer square root of n >= 0.
ISqrt(n) == IF n = 0 THEN 0 ELSE ISqrtIter(n, n)

Sqrt(x) ==
    IF IsNaN(x) \/ x = NInf THEN NaN
    ELSE IF x = PInf THEN PInf
    ELSE IF x < 0 THEN NaN
    ELSE ISqrt(x * FP)

\* The series of 2 atanh(z) from z and z^2, summed at twenty times the
\* precision and rounded once.
atanh2(z, z2) ==
    RDiv(20 * z + RDiv(20 * DMul(z, z2), 3) + RDiv(20 * DMul(DMul(z, z2), z2), 5)
         + RDiv(20 * DMul(DMul(DMul(z, z2), z2), z2), 7), 10)

\* ln of a finite x > 0: halve or double into [0.5, 2), then
\* ln x = 2 atanh((x - 1) / (x + 1)) by its series.
RECURSIVE LnPos(_)
LnPos(x) ==
    IF x >= 2 * FP THEN 693 + LnPos(x \div 2)
    ELSE IF x < FP \div 2 THEN LnPos(2 * x) - 693
    ELSE IF x >= FP THEN atanh2(DDiv(x - FP, x + FP),
                                DMul(DDiv(x - FP, x + FP), DDiv(x - FP, x + FP)))
    ELSE -atanh2(DDiv(FP - x, x + FP),
                 DMul(DDiv(FP - x, x + FP), DDiv(FP - x, x + FP)))

Ln(x) ==
    IF IsNaN(x) \/ x = NInf THEN NaN
    ELSE IF x = PInf THEN PInf
    ELSE IF x < 0 THEN NaN
    ELSE IF x = 0 THEN NInf
    ELSE LnPos(x)

\* The Taylor series of exp(-y) from y and y^2.
exp_series(y, y2) ==
    FP - y + RDiv(y2, 2) - RDiv(DMul(y2, y), 6) + RDiv(DMul(y2, y2), 24)

\* exp(-y) for a finite y >= 0: exp(-y) = exp(-y/2) exp(-(y - y/2)) down to
\* y <= 0.25, then the Taylor series.
RECURSIVE ExpNeg(_)
ExpNeg(y) ==
    IF y > 16 * FP THEN 0
    ELSE IF y > FP \div 4 THEN DMul(ExpNeg(y \div 2), ExpNeg(y - y \div 2))
    ELSE exp_series(y, DMul(y, y))

Exp(x) ==
    IF IsNaN(x) THEN NaN
    ELSE IF x = PInf THEN PInf
    ELSE IF x = NInf THEN 0
    ELSE IF x <= 0 THEN ExpNeg(-x)
    ELSE DDiv(FP, ExpNeg(x))

(***************************************************************************)
(* Constants.                                                              *)
(***************************************************************************)
RISK_FREE_RATE == 45
PI == 3142

(***************************************************************************)
(* Math utilities: the normal distribution.                                *)
(***************************************************************************)
norm_pdf(x) ==
    DDiv(Exp(DMul(-500, DMul(x, x))), Sqrt(DMul(2 * FP, PI)))

\* norm_cdf after `x = std::abs(x) / std::sqrt(2.0)` and
\* `t = 1.0 / (1.0 + p * x)`: the value of y.
norm_cdf_y(x, t) ==
    LET a1 == 255
        a2 == -284
        a3 == 1421
        a4 == -1453
        a5 == 1061
    IN  DSub(FP, DMul(DMul(DAdd(DMul(DAdd(DMul(DAdd(DMul(DAdd(DMul(a5, t), a4), t),
                                                   a3), t), a2), t), a1), t),
                      Exp(DNeg(DMul(x, x)))))

\* norm_cdf after `x = std::abs(x) / std::sqrt(2.0)`.
norm_cdf_t(sign, x) ==
    DMul(500, DAdd(FP, DMulI(norm_cdf_y(x, DDiv(FP, DAdd(FP, DMul(328, x)))), sign)))

norm_cdf(x) ==
    norm_cdf_t(IF DLt(x, 0) THEN -1 ELSE 1, DDiv(DAbs(x), Sqrt(2 * FP)))

(***************************************************************************)
(* Black-Scholes Greeks.                                                   *)
(***************************************************************************)
\* struct Greeks, default-initialised.
Greeks == [delta |-> 0, gamma |-> 0, theta |-> 0, vega |-> 0, rho |-> 0]

\* bs_d1_d2 from d1 on.
d1_d2(d1, sigma, sqrt_T) == <<d1, DSub(d1, DMul(sigma, sqrt_T))>>

\* bs_d1_d2 from sqrt_T on.
d1_of(S, K, T, r, sigma, sqrt_T) ==
    DDiv(DAdd(Ln(DDiv(S, K)), DMul(DAdd(r, DMul(500, DMul(sigma, sigma))), T)),
         DMul(sigma, sqrt_T))

bs_d1_d2(S, K, T, r, sigma) ==
    IF DLe(T, 0) \/ DLe(sigma, 0) THEN <<0, 0>>
    ELSE d1_d2(d1_of(S, K, T, r, sigma, Sqrt(T)), sigma, Sqrt(T))

\* bs_put_greeks: theta from theta_annual.
theta_of(theta_annual) == DMulI(DDiv(theta_annual, 365 * FP), 100)

\* bs_put_greeks: gamma from n_d1 and denom.
gamma_of(n_d1, denom) == IF DGt(denom, 0) THEN DDiv(n_d1, denom) ELSE 0

\* bs_put_greeks from n_d1, N_neg_d1, N_neg_d2 and exp(-r * T) on.
greeks_from(S, K, T, r, sigma, sqrt_T, n_d1, N_neg_d1, N_neg_d2, disc) ==
    [delta |-> DNeg(N_neg_d1),
     gamma |-> gamma_of(n_d1, DMul(DMul(S, sigma), sqrt_T)),
     theta |-> theta_of(DAdd(DDiv(DNeg(DMul(DMul(S, n_d1), sigma)), DMulI(sqrt_T, 2)),
                             DMul(DMul(DMul(r, K), disc), N_neg_d2))),
     vega  |-> DDiv(DMul(DMul(S, n_d1), sqrt_T), 100 * FP),
     rho   |-> DDiv(DMul(DMul(DMul(DNeg(K), T), disc), N_neg_d2), 100 * FP)]

\* bs_put_greeks from d1 and d2 on.
greeks_from_d(S, K, T, r, sigma, d) ==
    greeks_from(S, K, T, r, sigma, Sqrt(T), norm_pdf(d[1]), norm_cdf(DNeg(d[1])),
                norm_cdf(DNeg(d[2])), Exp(DMul(DNeg(r), T)))

\* bs_put_greeks below its guard clause.
bs_put_greeks_body(S, K, T, r, sigma) ==
    greeks_from_d(S, K, T, r, sigma, bs_d1_d2(S, K, T, r, sigma))

\* bs_put_greeks with `T < 0` for `T <= 0` in its guard clause: a variant that
\* C10 must tell from bs_put_greeks.
bs_put_greeks_open_guard(S, K, T, r, sigma) ==
    IF DLt(T, 0) \/ DLe(sigma, 0) THEN Greeks
    ELSE bs_put_greeks_body(S, K, T, r, sigma)

bs_put_greeks(S, K, T, r, sigma) ==
    IF DLe(T, 0) \/ DLe(sigma, 0) THEN Greeks
    ELSE bs_put_greeks_body(S, K, T, r, sigma)

(***************************************************************************)
(* Screening data: StockQuote, OptionContract, ScreeningArgs.              *)
(***************************************************************************)
\* struct ScreeningArgs with its default member initialisers.
ScreeningArgs ==
    [tickers |-> <<>>, ai_stocks |-> FALSE, income_mode |-> FALSE,
     min_return |-> 500, min_delta |-> 150, max_delta |-> 350,
     min_dte |-> 20, max_dte |-> 50, top |-> 25,
     min_margin |-> -999000, min_fcf_yield |-> -999000,
     min_revenue_growth |-> -999000]

\* One step of parse_args' loop: the option opt[1] with its converted value opt[2].
parse_option(a, opt) ==
    IF opt[1] = "--ai-stocks" THEN [a EXCEPT !.ai_stocks = TRUE]
    ELSE IF opt[1] = "--income" THEN [a EXCEPT !.income_mode = TRUE]
    ELSE IF opt[1] = "-t" THEN [a EXCEPT !.tickers = a.tickers \o opt[2]]
    ELSE IF opt[1] = "--min-return" THEN [a EXCEPT !.min_return = opt[2]]
    ELSE IF opt[1] = "--min-delta" THEN [a EXCEPT !.min_delta = opt[2]]
    ELSE IF opt[1] = "--max-delta" THEN [a EXCEPT !.max_delta = opt[2]]
    ELSE IF opt[1] = "--min-dte" THEN [a EXCEPT !.min_dte = opt[2]]
    ELSE IF opt[1] = "--max-dte" THEN [a EXCEPT !.max_dte = opt[2]]
    ELSE IF opt[1] = "--top" THEN [a EXCEPT !.top = opt[2]]
    ELSE IF opt[1] = "--min-margin" THEN [a EXCEPT !.min_margin = opt[2]]
    ELSE IF opt[1] = "--min-fcf-yield" THEN [a EXCEPT !.min_fcf_yield = opt[2]]
    ELSE IF opt[1] = "--min-revenue-growth" THEN [a EXCEPT !.min_revenue_growth = opt[2]]
    ELSE a

RECURSIVE parse_loop(_, _)
parse_loop(a, argv) ==
    IF argv = <<>> THEN a
    ELSE parse_loop(parse_option(a, Head(argv)), Tail(argv))

parse_args(argv) ==
    LET a == parse_loop(ScreeningArgs, argv)
    IN  IF a.income_mode /\ a.min_delta = 150 /\ a.max_delta = 350
        THEN [a EXCEPT !.max_delta = 250]
        ELSE a

\* Bounds of the model.
MaxTickers == 2
MaxExps == 2
MaxContracts == 2

Take(s, n) == SubSeq(s, 1, IF Len(s) < n THEN Len(s) ELSE n)

\* The watchlists, each cut to its first MaxTickers entries.
DEFAULT_TICKERS == Take(<<"SPY", "QQQ", "AAPL", "MSFT">>, MaxTickers)
AI_TECH_TICKERS == Take(<<"NVDA", "AMD", "TSM", "AVGO">>, MaxTickers)
INCOME_TICKERS == Take(<<"NVDA", "AMZN", "TSLA", "GOOGL">>, MaxTickers)

\* main's resolution of the ticker list.
resolve_tickers(a) ==
    IF a.income_mode /\ a.tickers = <<>> /\ ~a.ai_stocks THEN INCOME_TICKERS
    ELSE IF a.ai_stocks THEN AI_TECH_TICKERS
    ELSE IF a.tickers # <<>> THEN a.tickers
    ELSE DEFAULT_TICKERS

\* The command lines of the model.
CommandLines ==
    << <<>>,
       << <<"-t", <<"NVDA">> >>, <<"--top", 1>> >>,
       << <<"-t", <<"NVDA">> >>, <<"--top", 0>> >>,
       << <<"-t", <<"NVDA">> >>, <<"--top", -1>> >>,
       << <<"-t", <<"NVDA">> >>,
          <<"--min-delta", 0>>, <<"--max-delta", 1000>>, <<"--min-dte", 0>>,
          <<"--min-return", -100000>>, <<"--top", 2>> >>,
       << <<"-t", <<"NVDA">> >>, <<"--income", TRUE>> >>,
       << <<"-t", <<"NVDA">> >>, <<"--min-delta", 400>>, <<"--max-delta", 200>> >>,
       << <<"-t", <<"NVDA">> >>, <<"--min-margin", 50000>>, <<"--min-fcf-yield", 3000>>,
          <<"--min-revenue-growth", 15000>> >> >>

\* struct StockQuote, default-initialised.
StockQuote ==
    [price |-> 0, pe_ratio |-> 0, gross_margin |-> 0, operating_margin |-> 0,
     fcf_yield |-> 0, revenue_growth |-> 0, valid |-> FALSE]

\* What fetch_quote can return: no data, a quote without fundamentals, and a
\* quote with strong fundamentals.
Quotes ==
    { StockQuote,
      [StockQuote EXCEPT !.price = 120000, !.valid = TRUE],
      [StockQuote EXCEPT !.price = 120000, !.valid = TRUE, !.pe_ratio = 20000,
          !.gross_margin = 65000, !.operating_margin = 30000,
          !.fcf_yield = 6000, !.revenue_growth = 25000] }

\* struct OptionContract as fetch_puts fills it.
OptionContract(strike, bid, ask, implied_vol) ==
    [strike |-> strike, bid |-> bid, ask |-> ask, implied_vol |-> implied_vol,
     volume |-> 10, open_interest |-> 100]

\* The put contracts a chain can hold.
Contracts ==
    { OptionContract(110000, 2400, 2600, 350),
      OptionContract(120000, 3000, 3200, 350),
      OptionContract(110000, 0, 0, 350),
      OptionContract(110000, 2000, 3000, 350),
      OptionContract(100000, 500, 540, 0),
      OptionContract(118000, 3000, 3200, 350),
      OptionContract(110000, 400, 440, 350),
      OptionContract(-10000, 2400, 2600, 350) }

\* time(nullptr), the origin of the model's timestamps.
now == 0

\* The expiration timestamps a ticker can list: today, in 30 days, in 60 days.
ExpTimes == {43200, 30 * 86400 + 43200, 60 * 86400 + 43200}

\* C++ integer division truncates toward zero.
IDiv(a, b) == Sgn(a) * Sgn(b) * (Mag(a) \div Mag(b))

days_until(exp_time) == IDiv(exp_time - now, 86400)

\* The adjustments with a gross margin of exactly zero penalised like one in
\* (0, 20): a variant that C21 must tell from quality_points.
quality_points_zero_penalised(quote) ==
    LET gm == IF DGe(quote.gross_margin, 60000) THEN 12
              ELSE IF DGe(quote.gross_margin, 40000) THEN 6
              ELSE IF DLt(quote.gross_margin, 20000) /\ DGe(quote.gross_margin, 0) THEN -8
              ELSE 0
        om == IF DGe(quote.operating_margin, 25000) THEN 10
              ELSE IF DGe(quote.operating_margin, 15000) THEN 5
              ELSE IF DLt(quote.operating_margin, 0) THEN -10
              ELSE 0
        fy == IF DGe(quote.fcf_yield, 5000) THEN 10
              ELSE IF DGe(quote.fcf_yield, 2000) THEN 5
              ELSE IF DLt(quote.fcf_yield, 0) THEN -8
              ELSE 0
        rg == IF DGe(quote.revenue_growth, 20000) THEN 10
              ELSE IF DGe(quote.revenue_growth, 10000) THEN 5
              ELSE IF DLt(quote.revenue_growth, 0) THEN -8
              ELSE 0
        pe == IF DGt(quote.pe_ratio, 0) /\ DLe(quote.pe_ratio, 25000) THEN 8
              ELSE IF DGt(quote.pe_ratio, 25000) /\ DLe(quote.pe_ratio, 50000) THEN 2
              ELSE IF DGt(quote.pe_ratio, 100000) \/ DLt(quote.pe_ratio, 0) THEN -5
              ELSE 0
    IN  gm + om + fy + rg + pe

\* The points compute_quality_score adds to its neutral start of 50.
quality_points(quote) ==
    LET gm == IF DGe(quote.gross_margin, 60000) THEN 12
              ELSE IF DGe(quote.gross_margin, 40000) THEN 6
              ELSE IF DLt(quote.gross_margin, 20000) /\ DGt(quote.gross_margin, 0) THEN -8
              ELSE 0
        om == IF DGe(quote.operating_margin, 25000) THEN 10
              ELSE IF DGe(quote.operating_margin, 15000) THEN 5
              ELSE IF DLt(quote.operating_margin, 0) THEN -10
              ELSE 0
        fy == IF DGe(quote.fcf_yield, 5000) THEN 10
              ELSE IF DGe(quote.fcf_yield, 2000) THEN 5
              ELSE IF DLt(quote.fcf_yield, 0) THEN -8
              ELSE 0
        rg == IF DGe(quote.revenue_growth, 20000) THEN 10
              ELSE IF DGe(quote.revenue_growth, 10000) THEN 5
              ELSE IF DLt(quote.revenue_growth, 0) THEN -8
              ELSE 0
        pe == IF DGt(quote.pe_ratio, 0) /\ DLe(quote.pe_ratio, 25000) THEN 8
              ELSE IF DGt(quote.pe_ratio, 25000) /\ DLe(quote.pe_ratio, 50000) THEN 2
              ELSE IF DGt(quote.pe_ratio, 100000) \/ DLt(quote.pe_ratio, 0) THEN -5
              ELSE 0
    IN  gm + om + fy + rg + pe

\* A clamp to [0, 90]: a variant that C22 must tell from clamp_score.
clamp_score_at_90(score) ==
    IF score < 0 THEN 0 ELSE IF 90 < score THEN 90 ELSE score

\* std::max(0, std::min(100, score)) on int.
clamp_score(score) ==
    IF (IF 100 < score THEN 100 ELSE score) < 0 THEN 0
    ELSE IF 100 < score THEN 100 ELSE score

\* A start of 60 and no clamp: a variant that C11 must tell from
\* compute_quality_score.
compute_quality_score_from_60(quote) == 60 + quality_points(quote)

compute_quality_score(quote) == clamp_score(50 + quality_points(quote))

\* The fundamental filters with their comparisons of the metric turned round:
\* a variant that C16 must tell from fails_fundamentals.
fails_fundamentals_above(quote, a) ==
    \/ DGt(a.min_margin, -999000) /\ DGt(quote.gross_margin, a.min_margin)
    \/ DGt(a.min_fcf_yield, -999000) /\ DGt(quote.fcf_yield, a.min_fcf_yield)
    \/ DGt(a.min_revenue_growth, -999000) /\ DGt(quote.revenue_growth, a.min_revenue_growth)

\* screen_ticker's fundamental filters.
fails_fundamentals(quote, a) ==
    \/ DGt(a.min_margin, -999000) /\ DLt(quote.gross_margin, a.min_margin)
    \/ DGt(a.min_fcf_yield, -999000) /\ DLt(quote.fcf_yield, a.min_fcf_yield)
    \/ DGt(a.min_revenue_growth, -999000) /\ DLt(quote.revenue_growth, a.min_revenue_growth)

(***************************************************************************)
(* screen_ticker: the checks of one put contract, in the order of the code.*)
(***************************************************************************)
\* `put.strike > quote.price` for `>=`: a variant that C7 must tell from is_itm.
is_itm_strict(put, quote) == DGt(put.strike, quote.price)

\* Skip ITM puts.
is_itm(put, quote) == DGe(put.strike, quote.price)

\* `put.bid < 0` for `<=`: a variant that C8 must tell from no_bid.
no_bid_strict(put) == DLt(put.bid, 0)

no_bid(put) == DLe(put.bid, 0)

mid_of(put) == DDiv(DAdd(put.bid, put.ask), 2 * FP)

spread_of(put) == DSub(put.ask, put.bid)

\* A threshold of 50% for 15%: a variant that C4 must tell from wide_spread.
wide_spread_lax(put) ==
    DGt(mid_of(put), 0) /\ spread_of(put) * FP > 500 * mid_of(put)

\* Skip wide spreads (>15%).  The quotient spread / mid is compared exactly:
\* spread / mid > 0.15 iff spread > 0.15 * mid, for mid > 0.
wide_spread(put) ==
    DGt(mid_of(put), 0) /\ spread_of(put) * FP > 150 * mid_of(put)

\* The volatility with an implied volatility of zero taken as it is: a variant
\* that C19 must tell from sigma_of.
sigma_of_nonnegative(put) == IF DGe(put.implied_vol, 0) THEN put.implied_vol ELSE 300

sigma_of(put) == IF DGt(put.implied_vol, 0) THEN put.implied_vol ELSE 300

\* T = dte / 365.0
years(dte) == DDiv(dte * FP, 365 * FP)

\* The arguments of the call of bs_put_greeks.
pricer_call(put, quote, dte) ==
    [S |-> quote.price, K |-> put.strike, T |-> years(dte),
     r |-> RISK_FREE_RATE, sigma |-> sigma_of(put)]

greeks_of(put, quote, dte) ==
    bs_put_greeks(quote.price, put.strike, years(dte), RISK_FREE_RATE, sigma_of(put))

\* abs_delta < args.min_delta || abs_delta > args.max_delta
outside(abs_delta, a) == DLt(abs_delta, a.min_delta) \/ DGt(abs_delta, a.max_delta)

delta_out_of_band(greeks, a) == outside(DAbs(greeks.delta), a)

\* monthly_return without its factor 100: a variant that C6 must tell from
\* monthly_return_of.
monthly_return_of_fraction(mid, strike, dte) ==
    IF dte > 0
    THEN DMul(DDiv(mid, strike), DDiv(30 * FP, dte * FP))
    ELSE 0

monthly_return_of(mid, strike, dte) ==
    IF dte > 0
    THEN DMulI(DMul(DDiv(mid, strike), DDiv(30 * FP, dte * FP)), 100)
    ELSE 0

low_return(monthly_return, a) == DLt(monthly_return, a.min_return)

otm_pct_of(put, quote) ==
    DMulI(DDiv(DSub(quote.price, put.strike), quote.price), 100)

\* The composite score with the gamma penalty added instead of subtracted: a
\* variant that C14 must tell from score_of.
score_of_plus_gamma(monthly_return, otm_pct, greeks, qs) ==
    DAdd(DAdd(DAdd(DAdd(DAdd(DMul(monthly_return, 400), DMul(500, 15 * FP)),
                        DMul(otm_pct, 250)),
                   DMul(DMin(DDiv(DAbs(greeks.theta), 10 * FP), 5 * FP), 1500)),
              DMul(DMulI(DDiv(qs * FP, 100 * FP), 10), 800)),
         DMul(DMin(DMulI(greeks.gamma, 10000), 5 * FP), 500))

\* Composite score.
score_of(monthly_return, otm_pct, greeks, qs) ==
    LET theta_score == DMin(DDiv(DAbs(greeks.theta), 10 * FP), 5 * FP)
        gamma_penalty == DMin(DMulI(greeks.gamma, 10000), 5 * FP)
        qual_contribution == DMulI(DDiv(qs * FP, 100 * FP), 10)
    IN  DSub(DAdd(DAdd(DAdd(DAdd(DMul(monthly_return, 400), DMul(500, 15 * FP)),
                            DMul(otm_pct, 250)),
                       DMul(theta_score, 1500)),
                  DMul(qual_contribution, 800)),
             DMul(gamma_penalty, 500))

\* The checks ahead of the call of bs_put_greeks: the one that ends the
\* processing of the contract, or "priced".
early_stage(put, quote) ==
    IF is_itm(put, quote) THEN "moneyness"
    ELSE IF no_bid(put) THEN "bid"
    ELSE IF wide_spread(put) THEN "spread"
    ELSE "priced"

\* The checks after the call of bs_put_greeks with the monthly return tested
\* ahead of the delta band: a variant that C18 must tell from late_stage.
late_stage_return_first(put, dte, a, greeks) ==
    IF low_return(monthly_return_of(mid_of(put), put.strike, dte), a) THEN "return"
    ELSE IF delta_out_of_band(greeks, a) THEN "delta"
    ELSE "accept"

\* The checks after the call of bs_put_greeks, which returned greeks.
late_stage(put, dte, a, greeks) ==
    IF delta_out_of_band(greeks, a) THEN "delta"
    ELSE IF low_return(monthly_return_of(mid_of(put), put.strike, dte), a) THEN "return"
    ELSE "accept"

\* The check that ends the processing of a contract, or "accept".
filter_stage(put, quote, dte, a, greeks) ==
    IF early_stage(put, quote) # "priced" THEN early_stage(put, quote)
    ELSE late_stage(put, dte, a, greeks)

\* The stages at which bs_put_greeks has been called.
PricedStages == {"delta", "return", "accept"}

\* struct ScreeningResult as screen_ticker fills it, from the values
\* screen_ticker has computed for the contract.
make_result(symbol, put, quote, exp, dte, qs, mid, greeks, monthly_return, otm_pct) ==
    [ticker |-> symbol, price |-> quote.price, strike |-> put.strike,
     expiration |-> exp, dte |-> dte, bid |-> put.bid, ask |-> put.ask,
     mid |-> mid, greeks |-> greeks, iv |-> DMulI(put.implied_vol, 100),
     otm_pct |-> otm_pct, monthly_return |-> monthly_return,
     capital |-> DMulI(put.strike, 100), premium |-> DMulI(mid, 100),
     volume |-> put.volume, oi |-> put.open_interest,
     quality_score |-> qs,
     score |-> score_of(monthly_return, otm_pct, greeks, qs)]

\* The ScreeningResult of a contract that passed every check.
ScreeningResult(symbol, put, quote, exp, dte, qs, greeks) ==
    make_result(symbol, put, quote, exp, dte, qs, mid_of(put),
                greeks,
                monthly_return_of(mid_of(put), put.strike, dte),
                otm_pct_of(put, quote))

\* The body of `for (put : puts)` for one contract: the result pushed, if any.
screen_put(symbol, put, quote, exp, dte, qs, a, greeks) ==
    IF filter_stage(put, quote, dte, a, greeks) = "accept"
    THEN <<ScreeningResult(symbol, put, quote, exp, dte, qs, greeks)>>
    ELSE <<>>

\* The loop `for (put : puts)` from the contract at the head of chain on.
RECURSIVE screen_puts(_, _, _, _, _, _)
screen_puts(symbol, chain, quote, exp, qs, a) ==
    IF chain = <<>> THEN <<>>
    ELSE screen_put(symbol, Head(chain), quote, exp, days_until(exp), qs, a,
                    IF early_stage(Head(chain), quote) = "priced"
                    THEN greeks_of(Head(chain), quote, days_until(exp))
                    ELSE Greeks)
         \o screen_puts(symbol, Tail(chain), quote, exp, qs, a)

\* The loop started at the second contract: a variant that C15 must tell from
\* screen_chain.
screen_chain_after_head(symbol, chain, quote, exp, a) ==
    IF chain = <<>> THEN <<>>
    ELSE screen_puts(symbol, Tail(chain), quote, exp, compute_quality_score(quote), a)

\* What screen_ticker pushes into results for the chain of one expiration.
screen_chain(symbol, chain, quote, exp, a) ==
    screen_puts(symbol, chain, quote, exp, compute_quality_score(quote), a)

\* The contract a candidate was made from.
contract_of(c) ==
    [strike |-> c.strike, bid |-> c.bid, ask |-> c.ask,
     implied_vol |-> DDiv(c.iv, 100 * FP), volume |-> c.volume,
     open_interest |-> c.oi]

contracts_of(s) == [k \in 1..Len(s) |-> contract_of(s[k])]

(***************************************************************************)
(* print_results: the ranker.                                              *)
(***************************************************************************)
\* star_rating: the number of stars of the string it returns.
star_rating(score) ==
    IF DGe(score, 20 * FP) THEN 3
    ELSE IF DGe(score, 16 * FP) THEN 2
    ELSE IF DGe(score, 12 * FP) THEN 1
    ELSE 0

\* The comparator handed to std::sort.
by_score(a, b) == DGt(a.score, b.score)

Bijections(n) == {f \in [1..n -> 1..n] : \A j, k \in 1..n : f[j] = f[k] => j = k}

Permute(s, f) == [k \in 1..Len(s) |-> s[f[k]]]

\* What std::sort may leave in the vector.  std::sort is not stable: with a
\* comparator that is a strict weak ordering it leaves any permutation in which
\* no element is ordered before its predecessor.  With a NaN score by_score
\* is no strict weak ordering and the behaviour is undefined: any permutation.
std_sort(s) ==
    LET ordered(t) == \A k \in 1..(Len(t) - 1) : ~by_score(t[k + 1], t[k])
        undefined == \E k \in 1..Len(s) : IsNaN(s[k].score)
    IN  {t \in {Permute(s, f) : f \in Bijections(Len(s))} : undefined \/ ordered(t)}

\* std::min(static_cast<size_t>(args.top), results.size()): a negative top
\* converts to a size_t above every vector size.
limit_of(top, size) == IF top < 0 THEN size ELSE IF size < top THEN size ELSE top

(***************************************************************************)
(* The program: main, screen_ticker and print_results as a state machine.  *)
(***************************************************************************)
\* The executor after connect(), and the locals of executeFromScreener at the
\* start of its loop; taken and skipped are history: the indices of the trades
\* executed, and the skipped ones with the total at the time.
ExecutorStart ==
    [nextOrderId |-> 1000, i |-> 1, results |-> <<>>, totalCollateral |-> 0,
     taken |-> <<>>, skipped |-> <<>>]

VARIABLES
    pc,           \* where the program is
    args,         \* main's args
    tickers,      \* main's resolved ticker list
    i,            \* main's loop index, from 1
    quote,        \* screen_ticker's quote
    quality_score,
    expirations,  \* screen_ticker's expirations
    e,            \* the index of the expiration being processed
    puts,         \* the chain of the expiration being processed
    p,            \* the index of the next contract of puts
    results,      \* screen_ticker's results
    all_results,  \* main's all_results
    discovered,   \* all_results as it was handed to print_results
    output,       \* the rows print_results has written
    last,         \* the contract processed last and how its processing ended
    nfetched,     \* the number of contracts fetched
    pin,          \* one function alone: its arguments
    pout,         \* one function alone: its result
    ratings,      \* the star rating written in each row of output
    accepted,     \* history: the contracts accepted so far, as they were processed
    executor      \* executeFromScreener's locals, the executor's order id and history

vars == <<pc, args, tickers, i, quote, quality_score, expirations, e, puts, p,
          results, all_results, discovered, output, last, nfetched,
          pin, pout, ratings, accepted, executor>>

NoLast == [stage |-> "none"]

Init ==
    /\ pc = "start"
    /\ args = ScreeningArgs
    /\ tickers = <<>>
    /\ i = 1
    /\ quote = StockQuote
    /\ quality_score = 50
    /\ expirations = <<>>
    /\ e = 1
    /\ puts = <<>>
    /\ p = 1
    /\ results = <<>>
    /\ all_results = <<>>
    /\ discovered = <<>>
    /\ output = <<>>
    /\ last = NoLast
    /\ nfetched = 0
    /\ pin = <<>>
    /\ pout = Greeks
    /\ ratings = <<>>
    /\ accepted = <<>>
    /\ executor = ExecutorStart

\* main: parse_args and the resolution of the ticker list.
ParseArgs ==
    /\ pc = "start"
    /\ \E k \in 1..Len(CommandLines) :
         /\ args' = parse_args(CommandLines[k])
         /\ tickers' = resolve_tickers(parse_args(CommandLines[k]))
    /\ pc' = "scan"
    /\ UNCHANGED <<i, quote, quality_score, expirations, e, puts, p, results,
                   all_results, discovered, output, last, nfetched,
                   pin, pout, ratings, accepted, executor>>

\* screen_ticker returns before its loop over the expirations: the quote could
\* not be fetched, a fundamental filter excludes the ticker, or no expiration
\* is listed; pc names the return statement taken.
ScreenTickerReturnEarly ==
    /\ pc = "scan"
    /\ i <= Len(tickers)
    /\ \E q \in Quotes, exps \in {<<>>} \cup {<<x>> : x \in ExpTimes} :
         /\ ~q.valid \/ fails_fundamentals(q, args) \/ exps = <<>>
         /\ quote' = q
         /\ quality_score' = IF q.valid THEN compute_quality_score(q) ELSE 50
         /\ pc' = IF ~q.valid THEN "return_no_quote"
                  ELSE IF fails_fundamentals(q, args) THEN "return_floor"
                  ELSE "return_no_expirations"
    /\ results' = <<>>
    /\ UNCHANGED <<args, tickers, i, expirations, e, puts, p,
                   all_results, discovered, output, last, nfetched, pin, pout, ratings, accepted, executor>>

\* The lists fetch_option_expirations can return: the provider lists the
\* expiration dates in ascending order.
ExpirationLists ==
    {x \in UNION {[1..n -> ExpTimes] : n \in 1..MaxExps} :
        \A j \in 1..(Len(x) - 1) : x[j] < x[j + 1]}

\* screen_ticker up to its loop over the expirations, entering the loop.
ScreenTickerBegin ==
    /\ pc = "scan"
    /\ i <= Len(tickers)
    /\ \E q \in Quotes, exps \in ExpirationLists :
         /\ q.valid
         /\ ~fails_fundamentals(q, args)
         /\ quote' = q
         /\ quality_score' = compute_quality_score(q)
         /\ expirations' = exps
    /\ results' = <<>>
    /\ e' = 1
    /\ pc' = "exp"
    /\ UNCHANGED <<args, tickers, i, puts, p, all_results, discovered, output,
                   last, nfetched, pin, pout, ratings, accepted, executor>>

\* The lower bound alone: a variant that C9 must tell from dte_out_of_band.
dte_out_of_band_below(dte, a) == dte < a.min_dte

dte_out_of_band(dte, a) == dte < a.min_dte \/ dte > a.max_dte

\* for (exp : expirations): an expiration outside the DTE band is skipped.
ExpirationSkip ==
    /\ pc = "exp"
    /\ e <= Len(expirations)
    /\ dte_out_of_band(days_until(expirations[e]), args)
    /\ e' = e + 1
    /\ UNCHANGED <<pc, args, tickers, i, quote, quality_score, expirations, puts,
                   p, results, all_results, discovered, output, last,
                   nfetched, pin, pout, ratings, accepted, executor>>

Chains(n) == UNION {[1..k -> Contracts] : k \in 0..n}

\* for (exp : expirations): the chain of an expiration inside the band is fetched.
ExpirationFetch ==
    /\ pc = "exp"
    /\ e <= Len(expirations)
    /\ ~dte_out_of_band(days_until(expirations[e]), args)
    /\ \E chain \in Chains(MaxContracts - nfetched) :
         /\ puts' = chain
         /\ nfetched' = nfetched + Len(chain)
    /\ p' = 1
    /\ pc' = "put"
    /\ UNCHANGED <<args, tickers, i, quote, quality_score, expirations, e,
                   results, all_results, discovered, output, last, pin, pout, ratings, accepted, executor>>

\* for (put : puts): one contract through the checks.
ProcessPut ==
    /\ pc = "put"
    /\ p <= Len(puts)
    /\ LET put == puts[p]
           dte == days_until(expirations[e])
       IN  \E greeks \in {IF early_stage(put, quote) = "priced"
                          THEN greeks_of(put, quote, dte) ELSE Greeks} :
           \E stage \in {filter_stage(put, quote, dte, args, greeks)} :
               /\ results' =
                    IF stage = "accept"
                    THEN Append(results,
                                ScreeningResult(tickers[i], put, quote, expirations[e],
                                                dte, quality_score, greeks))
                    ELSE results
               /\ last' = [stage |-> stage, put |-> put, dte |-> dte,
                           greeks |-> greeks, before |-> Len(results),
                           calls |-> IF early_stage(put, quote) = "priced"
                                     THEN <<pricer_call(put, quote, dte)>>
                                     ELSE <<>>]
               /\ accepted' =
                    IF stage = "accept"
                    THEN Append(accepted, [ticker |-> i, expiration |-> e, contract |-> p,
                                           symbol |-> tickers[i], exp |-> expirations[e],
                                           put |-> put])
                    ELSE accepted
    /\ p' = p + 1
    /\ UNCHANGED <<pc, args, tickers, i, quote, quality_score, expirations, e,
                   puts, all_results, discovered, output, nfetched, pin, pout, ratings, executor>>

\* The end of the chain: puts ends with the loop body, on to the next expiration.
PutsDone ==
    /\ pc = "put"
    /\ p > Len(puts)
    /\ puts' = <<>>
    /\ p' = 1
    /\ last' = NoLast
    /\ e' = e + 1
    /\ pc' = "exp"
    /\ UNCHANGED <<args, tickers, i, quote, quality_score, expirations, results,
                   all_results, discovered, output, nfetched, pin, pout, ratings, accepted, executor>>

\* The end of the expirations: screen_ticker returns results, its other locals end.
ExpirationsDone ==
    /\ pc = "exp"
    /\ e > Len(expirations)
    /\ quote' = StockQuote
    /\ quality_score' = 50
    /\ expirations' = <<>>
    /\ e' = 1
    /\ pc' = "merge"
    /\ UNCHANGED <<args, tickers, i, puts, p, results, all_results, discovered,
                   output, last, nfetched, pin, pout, ratings, accepted, executor>>

\* The values of pc at which screen_ticker has returned.
Returned == {"merge", "return_no_quote", "return_floor", "return_no_expirations"}

\* The results of a ticker put ahead of the ones gathered before: a variant
\* that C20 must tell from insert_at_end.
insert_at_begin(all, found) == found \o all

\* all_results.insert(all_results.end(), results.begin(), results.end())
insert_at_end(all, found) == all \o found

\* main: the results of the ticker go to the end of all_results; the locals of
\* screen_ticker have ended.
Merge ==
    /\ pc \in Returned
    /\ all_results' = insert_at_end(all_results, results)
    /\ results' = <<>>
    /\ quote' = StockQuote
    /\ quality_score' = 50
    /\ i' = i + 1
    /\ pc' = "scan"
    /\ UNCHANGED <<args, tickers, expirations, e, puts, p,
                   discovered, output, last, nfetched, pin, pout, ratings, accepted, executor>>

\* print_results on an empty vector: nothing is sorted and no row is written.
PrintNothing ==
    /\ pc = "scan"
    /\ i > Len(tickers)
    /\ all_results = <<>>
    /\ discovered' = all_results
    /\ output' = <<>>
    /\ pc' = "done"
    /\ UNCHANGED <<args, tickers, i, quote, quality_score, expirations, e, puts,
                   p, results, all_results, last, nfetched, pin, pout, ratings, accepted, executor>>

\* print_results: sort, limit, and one row for each of the first limit results.
PrintResults ==
    /\ pc = "scan"
    /\ i > Len(tickers)
    /\ all_results # <<>>
    /\ discovered' = all_results
    /\ \E sorted \in std_sort(all_results) :
         /\ all_results' = sorted
         /\ output' = SubSeq(sorted, 1, limit_of(args.top, Len(sorted)))
         /\ ratings' = [k \in 1..limit_of(args.top, Len(sorted)) |->
                           star_rating(sorted[k].score)]
    /\ pc' = "done"
    /\ UNCHANGED <<args, tickers, i, quote, quality_score, expirations, e, puts,
                   p, results, last, nfetched, pin, pout, accepted, executor>>

Next ==
    \/ ParseArgs
    \/ ScreenTickerReturnEarly
    \/ ScreenTickerBegin
    \/ ExpirationSkip
    \/ ExpirationFetch
    \/ ProcessPut
    \/ PutsDone
    \/ ExpirationsDone
    \/ Merge
    \/ PrintNothing
    \/ PrintResults

Spec == Init /\ [][Next]_vars

(***************************************************************************)
(* The pricer alone: bs_put_greeks applied to one argument list.           *)
(***************************************************************************)
\* The argument lists of the pricer: ordinary, zero, negative and non-finite
\* values of every argument.
PricerInputs ==
    [S : {120000, 0, -5000, NaN, PInf},
     K : {110000, 0, -10000, NaN},
     T : {-82, 0, 82, NaN},
     r : {45, 0, -10},
     sigma : {-100, 0, 350}]

InitPricer ==
    /\ pc = "call"
    /\ args = ScreeningArgs
    /\ tickers = <<>>
    /\ i = 1
    /\ quote = StockQuote
    /\ quality_score = 50
    /\ expirations = <<>>
    /\ e = 1
    /\ puts = <<>>
    /\ p = 1
    /\ results = <<>>
    /\ all_results = <<>>
    /\ discovered = <<>>
    /\ output = <<>>
    /\ last = NoLast
    /\ nfetched = 0
    /\ pin \in PricerInputs
    /\ pout = Greeks
    /\ ratings = <<>>
    /\ accepted = <<>>
    /\ executor = ExecutorStart

\* One call of bs_put_greeks.
CallPricer ==
    /\ pc = "call"
    /\ pout' = bs_put_greeks(pin.S, pin.K, pin.T, pin.r, pin.sigma)
    /\ pc' = "return"
    /\ UNCHANGED <<args, tickers, i, quote, quality_score, expirations, e, puts, p,
                   results, all_results, discovered, output, last, nfetched, pin, ratings, accepted, executor>>

NextPricer == CallPricer

SpecPricer == InitPricer /\ [][NextPricer]_vars

(***************************************************************************)
(* The quality scorer alone: compute_quality_score applied to one quote.   *)
(***************************************************************************)
\* The quotes of the scorer: every metric absent (0), negative, and on either
\* side of each of its thresholds.
QualityInputs ==
    [price : {120000},
     pe_ratio : {-3000, 0, 25000, 50000, 100000, 150000},
     gross_margin : {-5000, 0, 10000, 40000, 60000},
     operating_margin : {-5000, 0, 15000, 25000},
     fcf_yield : {-1000, 0, 2000, 5000},
     revenue_growth : {-5000, 0, 10000, 20000},
     valid : {TRUE}]

InitQuality ==
    /\ pc = "call_quality"
    /\ args = ScreeningArgs
    /\ tickers = <<>>
    /\ i = 1
    /\ quote = StockQuote
    /\ quality_score = 50
    /\ expirations = <<>>
    /\ e = 1
    /\ puts = <<>>
    /\ p = 1
    /\ results = <<>>
    /\ all_results = <<>>
    /\ discovered = <<>>
    /\ output = <<>>
    /\ last = NoLast
    /\ nfetched = 0
    /\ pin \in QualityInputs
    /\ pout = 50
    /\ ratings = <<>>
    /\ accepted = <<>>
    /\ executor = ExecutorStart

\* One call of compute_quality_score.
CallQuality ==
    /\ pc = "call_quality"
    /\ pout' = compute_quality_score(pin)
    /\ pc' = "return_quality"
    /\ UNCHANGED <<args, tickers, i, quote, quality_score, expirations, e, puts, p,
                   results, all_results, discovered, output, last, nfetched, pin, ratings, accepted, executor>>

NextQuality == CallQuality

SpecQuality == InitQuality /\ [][NextQuality]_vars

(***************************************************************************)
(* The filter alone: the loop over one chain, run on a chain and then on   *)
(* the contracts that survived.                                            *)
(***************************************************************************)
\* The runs of the filter: a chain, a fetched quote, an expiration inside the
\* DTE band and a configuration (the default one or the one whose delta and
\* return checks reject nothing).
FilterInputs ==
    [chain : Chains(MaxContracts),
     quote : {q \in Quotes : q.valid},
     exp : {x \in ExpTimes : days_until(x) <= 30},
     a : {parse_args(CommandLines[1]), parse_args(CommandLines[5])}]

InitFilter ==
    /\ pc = "call_filter"
    /\ args = ScreeningArgs
    /\ tickers = <<>>
    /\ i = 1
    /\ quote = StockQuote
    /\ quality_score = 50
    /\ expirations = <<>>
    /\ e = 1
    /\ puts = <<>>
    /\ p = 1
    /\ results = <<>>
    /\ all_results = <<>>
    /\ discovered = <<>>
    /\ output = <<>>
    /\ last = NoLast
    /\ nfetched = 0
    /\ pin \in FilterInputs
    /\ pout = <<>>
    /\ ratings = <<>>
    /\ accepted = <<>>
    /\ executor = ExecutorStart

\* The first run: the filter on the chain.
FilterChain ==
    /\ pc = "call_filter"
    /\ pout' = screen_chain("NVDA", pin.chain, pin.quote, pin.exp, pin.a)
    /\ pc' = "filtered"
    /\ UNCHANGED <<args, tickers, i, quote, quality_score, expirations, e, puts, p,
                   results, all_results, discovered, output, last, nfetched, pin, ratings, accepted, executor>>

\* The second run: the filter on the contracts that survived the first run,
\* whose candidates go to results.
FilterSurvivors ==
    /\ pc = "filtered"
    /\ results' = pout
    /\ pout' = screen_chain("NVDA", contracts_of(pout), pin.quote, pin.exp, pin.a)
    /\ pc' = "refiltered"
    /\ UNCHANGED <<args, tickers, i, quote, quality_score, expirations, e, puts, p,
                   all_results, discovered, output, last, nfetched, pin, ratings, accepted, executor>>

NextFilter ==
    \/ FilterChain
    \/ FilterSurvivors

SpecFilter == InitFilter /\ [][NextFilter]_vars

(***************************************************************************)
(* src/executor.cpp: CSPExecutor::executeFromScreener alone.               *)
(***************************************************************************)
MaxTrades == 3

\* struct TradeInput
TradeInput(ticker, strike, exp, mid) ==
    [ticker |-> ticker, strike |-> strike, exp |-> exp, mid |-> mid]

\* The trades of the model: two of the demo's sample trades, a strike below
\* zero without a limit price, and a strike that is not a number.
Trades ==
    { TradeInput("NVDA", 120000, "20260321", 3500),
      TradeInput("MSFT", 380000, "20260321", 5200),
      TradeInput("AMD", -10000, "20260321", 0),
      TradeInput("META", NaN, "20260321", 8500) }

\* The arguments of executeFromScreener.
ExecutorInputs ==
    [trades : UNION {[1..n -> Trades] : n \in 0..MaxTrades},
     maxPositions : {-1, 2, 5},
     maxCollateral : {-1 * FP, 0, 40000 * FP, NaN},
     dryRun : {TRUE, FALSE}]

\* getOptionPrice: the simulated prices.
getOptionPrice == [bid |-> 2500, ask |-> 2600, last |-> 2550]

\* sellPut, its result; nextOrderId is the executor's nextOrderId_ at the call.
sellPut(symbol, strike, expiry, quantity, limitPrice, dryRun, nextOrderId) ==
    LET prices == getOptionPrice
        midPrice == DDiv(DAdd(prices.bid, prices.ask), 2 * FP)
    IN  [symbol |-> symbol, strike |-> strike, expiry |-> expiry,
         quantity |-> quantity, dryRun |-> dryRun,
         bidPrice |-> prices.bid, askPrice |-> prices.ask,
         estimatedPremium |-> DMulI(DMulI(midPrice, 100), quantity),
         collateralRequired |-> DMulI(DMulI(strike, 100), quantity),
         orderType |-> IF DGt(limitPrice, 0) THEN "LIMIT" ELSE "MARKET",
         limitPrice |-> IF DGt(limitPrice, 0) THEN limitPrice ELSE 0,
         status |-> IF dryRun THEN "DRY_RUN" ELSE "SUBMITTED",
         orderId |-> IF dryRun THEN 0 ELSE nextOrderId]

\* double collateralNeeded = trade.strike * 100.0
collateralNeeded(trade) == DMulI(trade.strike, 100)

\* The collateral test on the total alone, before the trade is added: a
\* variant that C23 must tell from exceeds_collateral.
exceeds_collateral_before(totalCollateral, needed, maxCollateral) ==
    DGt(totalCollateral, maxCollateral)

\* totalCollateral + collateralNeeded > maxCollateral
exceeds_collateral(totalCollateral, needed, maxCollateral) ==
    DGt(DAdd(totalCollateral, needed), maxCollateral)

\* i < trades.size() && (int)results.size() < maxPositions, i from 1.
loop_continues(x, inputs) ==
    x.i <= Len(inputs.trades) /\ Len(x.results) < inputs.maxPositions

InitExecutor ==
    /\ pc = "exec_loop"
    /\ args = ScreeningArgs
    /\ tickers = <<>>
    /\ i = 1
    /\ quote = StockQuote
    /\ quality_score = 50
    /\ expirations = <<>>
    /\ e = 1
    /\ puts = <<>>
    /\ p = 1
    /\ results = <<>>
    /\ all_results = <<>>
    /\ discovered = <<>>
    /\ output = <<>>
    /\ last = NoLast
    /\ nfetched = 0
    /\ pin \in ExecutorInputs
    /\ pout = <<>>
    /\ ratings = <<>>
    /\ accepted = <<>>
    /\ executor = ExecutorStart

\* The loop body for a trade that would exceed maxCollateral: continue.
SkipTrade ==
    /\ pc = "exec_loop"
    /\ loop_continues(executor, pin)
    /\ exceeds_collateral(executor.totalCollateral,
                          collateralNeeded(pin.trades[executor.i]), pin.maxCollateral)
    /\ executor' = [executor EXCEPT
                       !.i = @ + 1,
                       !.skipped = Append(@, [index |-> executor.i,
                                              total |-> executor.totalCollateral])]
    /\ UNCHANGED <<pc, args, tickers, i, quote, quality_score, expirations, e, puts, p,
                   results, all_results, discovered, output, last, nfetched,
                   pin, pout, ratings, accepted>>

\* The loop body for a trade within maxCollateral: sellPut, push_back, add.
ExecuteTrade ==
    /\ pc = "exec_loop"
    /\ loop_continues(executor, pin)
    /\ ~exceeds_collateral(executor.totalCollateral,
                           collateralNeeded(pin.trades[executor.i]), pin.maxCollateral)
    /\ LET trade == pin.trades[executor.i]
       IN  executor' = [executor EXCEPT
               !.i = @ + 1,
               !.results = Append(@, sellPut(trade.ticker, trade.strike, trade.exp, 1,
                                             trade.mid, pin.dryRun, executor.nextOrderId)),
               !.totalCollateral = DAdd(@, collateralNeeded(trade)),
               !.nextOrderId = IF pin.dryRun THEN @ ELSE @ + 1,
               !.taken = Append(@, executor.i)]
    /\ UNCHANGED <<pc, args, tickers, i, quote, quality_score, expirations, e, puts, p,
                   results, all_results, discovered, output, last, nfetched,
                   pin, pout, ratings, accepted>>

\* The loop condition fails: return results.
ExecuteReturn ==
    /\ pc = "exec_loop"
    /\ ~loop_continues(executor, pin)
    /\ pout' = executor.results
    /\ pc' = "exec_return"
    /\ UNCHANGED <<args, tickers, i, quote, quality_score, expirations, e, puts, p,
                   results, all_results, discovered, output, last, nfetched,
                   pin, ratings, accepted, executor>>

NextExecutor ==
    \/ SkipTrade
    \/ ExecuteTrade
    \/ ExecuteReturn

SpecExecutor == InitExecutor /\ [][NextExecutor]_vars

(***************************************************************************)
(* The properties of the ranker.                                           *)
(***************************************************************************)
\* t is s reordered with every two elements of equal score in the order they
\* have in s.
KeepsTiesInOrder(t, s) ==
    \E f \in Bijections(Len(s)) :
        /\ t = Permute(s, f)
        /\ \A j, k \in 1..Len(s) : j < k /\ t[j].score = t[k].score => f[j] < f[k]

NoNaNScore(s) == \A k \in 1..Len(s) : ~IsNaN(s[k].score)

\* C1: once print_results has run on candidates whose scores are all numbers,
\* any two candidates of equal score stand in the ranked vector in the order
\* in which they were discovered, and the rows written are the head of that
\* vector, so the same holds after the truncation to top-N.
C1_RankerStable ==
    pc = "done" /\ NoNaNScore(discovered) =>
        /\ KeepsTiesInOrder(all_results, discovered)
        /\ output = SubSeq(all_results, 1, Len(output))

\* t is a prefix of a permutation of s.
PermutationPrefix(t, s) ==
    /\ Len(t) <= Len(s)
    /\ \E f \in Bijections(Len(s)) : t = SubSeq(Permute(s, f), 1, Len(t))

\* C2: once print_results has run on a non-empty vector, the rows written are
\* in non-increasing order of score (score[k] >= score[k+1] for every adjacent
\* pair) and are a prefix of a permutation of the candidates handed in.
C2_RankerSorted ==
    pc = "done" /\ discovered # <<>> =>
        /\ \A k \in 1..(Len(output) - 1) : DGe(output[k].score, output[k + 1].score)
        /\ PermutationPrefix(output, discovered)

MinOf(a, b) == IF a < b THEN a ELSE b
MaxOf(a, b) == IF a < b THEN b ELSE a

\* C3: once print_results has run, for every value of top that parse_args
\* accepts, the rows written are the first min(top, total) candidates of the
\* sorted vector (none when that minimum is not positive), and an empty
\* vector gives no row.
C3_RankerTruncates ==
    pc = "done" =>
        /\ Len(output) = MaxOf(0, MinOf(args.top, Len(discovered)))
        /\ output = SubSeq(all_results, 1, Len(output))
        /\ discovered = <<>> => output = <<>>

(***************************************************************************)
(* The properties of the filter of screen_ticker.                          *)
(***************************************************************************)
\* The candidates produced so far: those of the running screen_ticker, those
\* main has accumulated and the rows written.
SeqRange(s) == {s[k] : k \in 1..Len(s)}
Candidates == SeqRange(results) \cup SeqRange(all_results) \cup SeqRange(output)

\* The contract processed last left results as it was.
Rejected == last.stage # "accept" /\ Len(results) = last.before

\* C4: a contract that passed the moneyness and bid checks with mid > 0 and
\* (ask - bid) / mid > 0.15 is rejected at the spread check, whatever the
\* configuration, and no candidate has mid > 0 together with a spread above
\* 15% of mid; in particular bid 2.00, ask 3.00 is never a candidate.
C4_SpreadFilter ==
    /\ \A c \in Candidates :
          /\ ~(DGt(c.mid, 0) /\ (c.ask - c.bid) * FP > 150 * c.mid)
          /\ ~(c.bid = 2000 /\ c.ask = 3000)
    /\ last.stage \notin {"none", "moneyness", "bid"}
         /\ last.put.bid + last.put.ask > 0
         /\ (last.put.ask - last.put.bid) * 2 * FP > 150 * (last.put.bid + last.put.ask)
         => last.stage = "spread" /\ Rejected

\* A contract with bid 2.00 and ask 3.00 has been rejected at the spread check
\* under a configuration whose delta and return checks reject nothing.
C4_Witness ==
    /\ last.stage = "spread"
    /\ last.put.bid = 2000 /\ last.put.ask = 3000
    /\ args.max_delta = 1000 /\ args.min_return = -100000
    /\ Rejected

InBand(abs_delta, a) == DLe(a.min_delta, abs_delta) /\ DLe(abs_delta, a.max_delta)

\* C5: a contract that reached bs_put_greeks passes the delta check if and
\* only if min_delta <= |delta| <= max_delta, and every candidate has |delta|
\* inside that band.
C5_DeltaBand ==
    /\ last.stage \in PricedStages =>
          (last.stage # "delta" <=> InBand(DAbs(last.greeks.delta), args))
    /\ \A c \in Candidates : InBand(DAbs(c.greeks.delta), args)

\* (mid / strike) * (30 / daysToExpiration) * 100 in the arithmetic of doubles.
stated_monthly_return(mid, strike, dte) ==
    DMulI(DMul(DDiv(mid, strike), DDiv(30 * FP, dte * FP)), 100)

\* The value screen_ticker computes: the stated one for dte > 0, else 0.
guarded_monthly_return(mid, strike, dte) ==
    IF dte > 0 THEN stated_monthly_return(mid, strike, dte) ELSE 0

\* C6 as stated: a contract that passed the delta check is rejected exactly
\* when (mid / strike) * (30 / dte) * 100 is below min_return, and every
\* candidate carries that value, which is at least min_return.
C6_MonthlyReturnAsStated ==
    /\ last.stage \in {"return", "accept"} =>
          (last.stage = "return" <=>
              DLt(stated_monthly_return(mid_of(last.put), last.put.strike, last.dte),
                  args.min_return))
    /\ \A c \in Candidates :
          /\ c.monthly_return = stated_monthly_return(c.mid, c.strike, c.dte)
          /\ DGe(c.monthly_return, args.min_return)

\* C6: a contract that passed the delta check is rejected exactly when its
\* monthly return is below min_return, where the monthly return is
\* (mid / strike) * (30 / dte) * 100 for dte > 0 and 0 for dte <= 0; every
\* candidate carries that value, which is at least min_return.
C6_MonthlyReturn ==
    /\ last.stage \in {"return", "accept"} =>
          (last.stage = "return" <=>
              DLt(guarded_monthly_return(mid_of(last.put), last.put.strike, last.dte),
                  args.min_return))
    /\ \A c \in Candidates :
          /\ c.monthly_return = guarded_monthly_return(c.mid, c.strike, c.dte)
          /\ DGe(c.monthly_return, args.min_return)

\* The rows written hold a candidate that expires today, with monthly return 0,
\* and one that expires in 30 days, with a positive monthly return.
C6_Witness ==
    /\ pc = "done"
    /\ \E c \in SeqRange(output) : c.dte = 0 /\ c.monthly_return = 0 /\ c.mid > 0
    /\ \E c \in SeqRange(output) : c.dte = 30 /\ c.monthly_return > 0

\* C7: a contract with strike >= spot is rejected at the moneyness check,
\* whatever the configuration, and every candidate has strike < spot.
C7_Moneyness ==
    /\ \A c \in Candidates : DLt(c.strike, c.price)
    /\ last.stage # "none" /\ DGe(last.put.strike, quote.price)
         => last.stage = "moneyness" /\ Rejected

\* A contract with strike = spot has been rejected under a configuration
\* whose delta and return checks reject nothing.
C7_Witness ==
    /\ last.stage = "moneyness"
    /\ last.put.strike = quote.price
    /\ args.max_delta = 1000 /\ args.min_return = -100000
    /\ Rejected

\* C8: a contract with bid <= 0 is rejected and leaves the candidates of its
\* chain, and their number, as they were; every candidate has bid > 0.
C8_BidFilter ==
    /\ \A c \in Candidates : DGt(c.bid, 0)
    /\ last.stage # "none" /\ DLe(last.put.bid, 0)
         => last.stage \in {"moneyness", "bid"} /\ Rejected

\* A contract with bid 0 has been rejected at the bid check, after a candidate
\* of the same chain, under a configuration whose later checks reject nothing.
C8_Witness ==
    /\ last.stage = "bid"
    /\ last.put.bid = 0
    /\ last.before = 1 /\ Len(results) = 1
    /\ args.max_delta = 1000 /\ args.min_return = -100000

DteInBand(dte, a) == a.min_dte <= dte /\ dte <= a.max_dte

\* C9: a chain is fetched and iterated only for an expiration with
\* min_dte <= dte <= max_dte, so every contract processed and every candidate
\* has its dte in that band.
C9_ExpirationFilter ==
    /\ pc = "put" => DteInBand(days_until(expirations[e]), args)
    /\ last.stage # "none" => DteInBand(last.dte, args)
    /\ \A c \in Candidates : DteInBand(c.dte, args)

\* The 60-day expiration of a ticker has been passed over: nothing was fetched
\* for it and the loop is at the next expiration.
C9_Witness ==
    /\ pc = "exp"
    /\ e = 2
    /\ days_until(expirations[1]) = 60
    /\ nfetched = 0
    /\ results = <<>>

(***************************************************************************)
(* The properties of the pricer.                                           *)
(***************************************************************************)
\* C10: for every S, K and r, bs_put_greeks called with T <= 0 or sigma <= 0
\* returns delta, gamma, theta, vega and rho all exactly 0: no NaN and no
\* infinity.
C10_DegenerateInput ==
    pc = "return" /\ (DLe(pin.T, 0) \/ DLe(pin.sigma, 0)) =>
        /\ pout.delta = 0
        /\ pout.gamma = 0
        /\ pout.theta = 0
        /\ pout.vega = 0
        /\ pout.rho = 0

\* bs_put_greeks has returned from a call with T = 0 and otherwise ordinary
\* arguments.
C10_Witness ==
    /\ pc = "return"
    /\ pin = [S |-> 120000, K |-> 110000, T |-> 0, r |-> 45, sigma |-> 350]
    /\ pout = Greeks

(***************************************************************************)
(* The properties of the quality scorer.                                   *)
(***************************************************************************)
\* C11: for every combination of gross margin, operating margin, FCF yield,
\* revenue growth and P/E, absent and negative ones included,
\* compute_quality_score returns an integer from 0 to 100.
C11_QualityBounds ==
    pc = "return_quality" => pout \in 0..100

\* compute_quality_score has returned for a quote whose metrics are all
\* negative: 50 - 10 - 8 - 8 - 5.
C11_Witness ==
    /\ pc = "return_quality"
    /\ pin.gross_margin < 0 /\ pin.operating_margin < 0 /\ pin.fcf_yield < 0
    /\ pin.revenue_growth < 0 /\ pin.pe_ratio < 0
    /\ pout = 19

(***************************************************************************)
(* More properties of the filter of screen_ticker.                         *)
(***************************************************************************)
NonFiniteGreeks(g) ==
    \/ ~IsFinite(g.delta)
    \/ ~IsFinite(g.gamma)
    \/ ~IsFinite(g.theta)
    \/ ~IsFinite(g.vega)
    \/ ~IsFinite(g.rho)

\* C12: a contract for which bs_put_greeks returned a NaN or an infinity is
\* rejected, and no candidate has a non-finite Greek or score, so none reaches
\* the sort of print_results.
C12_NonFiniteRejected ==
    /\ last.stage \in PricedStages /\ NonFiniteGreeks(last.greeks) => Rejected
    /\ \A c \in Candidates : ~NonFiniteGreeks(c.greeks) /\ IsFinite(c.score)

(***************************************************************************)
(* The properties of the configuration.                                    *)
(***************************************************************************)
\* C13: with a configuration whose min_delta is above its max_delta,
\* screening never starts: no quote is fetched, no chain is fetched and no
\* contract is filtered.
C13_ConfigValidated ==
    DGt(args.min_delta, args.max_delta) =>
        /\ pc \in {"start", "scan"}
        /\ i = 1
        /\ quote = StockQuote
        /\ nfetched = 0
        /\ last = NoLast

(***************************************************************************)
(* The properties of the composite score.                                  *)
(***************************************************************************)
stated_theta_score(c) == DMin(DDiv(DAbs(c.greeks.theta), 10 * FP), 5 * FP)
stated_gamma_penalty(c) == DMin(DMulI(c.greeks.gamma, 10000), 5 * FP)
stated_quality_contribution(c) == DMulI(DDiv(c.quality_score * FP, 100 * FP), 10)
stated_otm_pct(c) == DMulI(DDiv(DSub(c.price, c.strike), c.price), 100)

\* monthlyReturn*0.40 + 7.5 + otmPct*0.25 + thetaScore*1.5
\* + qualityContribution*0.8 - gammaPenalty*0.5 for the candidate c.
stated_score(c) ==
    DSub(DAdd(DAdd(DAdd(DAdd(DMul(c.monthly_return, 400), 7500),
                        DMul(c.otm_pct, 250)),
                   DMul(stated_theta_score(c), 1500)),
              DMul(stated_quality_contribution(c), 800)),
         DMul(stated_gamma_penalty(c), 500))

\* C14: every candidate has score = monthlyReturn*0.40 + 15*0.5 + otmPct*0.25
\* + thetaScore*1.5 + qualityContribution*0.8 - gammaPenalty*0.5 with
\* thetaScore = min(|theta|/10, 5), gammaPenalty = min(gamma*10000, 5),
\* qualityContribution = (qualityScore/100)*10 and
\* otmPct = ((spot - strike)/spot)*100, in the arithmetic of doubles.
C14_CompositeScore ==
    \A c \in Candidates :
        /\ c.otm_pct = stated_otm_pct(c)
        /\ c.score = stated_score(c)

\* The rows written hold a candidate of a ticker with strong fundamentals
\* whose gamma penalty is at its cap of 5 and whose theta score is below its
\* cap.
C14_Witness ==
    /\ pc = "done"
    /\ \E c \in SeqRange(output) :
          /\ c.quality_score = 100
          /\ IsFinite(c.score)
          /\ stated_gamma_penalty(c) = 5 * FP
          /\ DGt(stated_theta_score(c), 0) /\ DLt(stated_theta_score(c), 5 * FP)

(***************************************************************************)
(* The properties of the filter run twice.                                 *)
(***************************************************************************)
\* C15: for every quote, expiration, configuration and chain, the filter run
\* on the contracts that survived a first run, with the same quote, dte and
\* configuration, yields the candidates of the first run.
C15_FilterIdempotent ==
    pc = "refiltered" => pout = results

\* The second run has returned for a chain of which the first run dropped a
\* contract and kept another.
C15_Witness ==
    /\ pc = "refiltered"
    /\ Len(results) = 1
    /\ Len(pin.chain) = 2
    /\ pout = results

(***************************************************************************)
(* The properties of the fundamental floors.                               *)
(***************************************************************************)
\* A floor is set when it is above its sentinel of -999.
FloorSet(floor) == DGt(floor, -999000)

\* A floor of a is set and the metric of q it bounds is below it.
BelowSetFloor(q, a) ==
    \/ FloorSet(a.min_margin) /\ DLt(q.gross_margin, a.min_margin)
    \/ FloorSet(a.min_fcf_yield) /\ DLt(q.fcf_yield, a.min_fcf_yield)
    \/ FloorSet(a.min_revenue_growth) /\ DLt(q.revenue_growth, a.min_revenue_growth)

\* C16: a floor at its sentinel excludes no underlying: screen_ticker returns
\* at a fundamental filter only for a quote with a metric below a floor that
\* is set; and an underlying with a metric below a set floor contributes no
\* candidate and has none of its expirations or contracts examined.
C16_FundamentalFloors ==
    /\ pc = "return_floor" =>
          /\ BelowSetFloor(quote, args)
          /\ results = <<>> /\ expirations = <<>> /\ puts = <<>>
    /\ pc \in {"exp", "put", "merge", "return_no_expirations"} /\ quote.valid =>
          ~BelowSetFloor(quote, args)

\* screen_ticker has returned at a fundamental filter: the quote was fetched,
\* its gross margin is below the floor of 50, and nothing else was examined.
C16_Witness ==
    /\ pc = "return_floor"
    /\ quote.valid
    /\ args.min_margin = 50000 /\ quote.gross_margin < 50000
    /\ results = <<>> /\ nfetched = 0

\* The rating the thresholds 20, 16 and 12 give a score, each case read as an
\* inequality on the score.
stated_rating_holds(score, stars) ==
    /\ stars = 3 <=> DGe(score, 20 * FP)
    /\ stars = 2 <=> DGe(score, 16 * FP) /\ DLt(score, 20 * FP)
    /\ stars = 1 <=> DGe(score, 12 * FP) /\ DLt(score, 16 * FP)
    /\ stars = 0 <=> DLt(score, 12 * FP)

\* C17: once the table is printed there is one rating for each row, three
\* stars exactly when the row's score is at least 20, two exactly when it is
\* at least 16 and below 20, one exactly when it is at least 12 and below 16,
\* none exactly when it is below 12; a row with a score no smaller than
\* another's has a rating no smaller; and the rows are the sorted, truncated
\* results whatever the ratings are.
C17_StarRating ==
    pc = "done" =>
        /\ Len(ratings) = Len(output)
        /\ output = SubSeq(all_results, 1, Len(output))
        /\ \A k \in 1..Len(output) :
               stated_rating_holds(output[k].score, ratings[k])
        /\ \A j, k \in 1..Len(output) :
               DLe(output[j].score, output[k].score) => ratings[j] <= ratings[k]

\* The contract processed last passed the moneyness, bid and spread checks.
PassedEarly ==
    /\ ~is_itm(last.put, quote)
    /\ ~no_bid(last.put)
    /\ ~wide_spread(last.put)

\* The monthly return of the contract processed last is below the configured
\* minimum.
LowReturn ==
    low_return(monthly_return_of(mid_of(last.put), last.put.strike, last.dte), args)

\* C18: the contract processed last ended at the first check it fails in the
\* order moneyness, bid, spread, delta band, monthly return, and was accepted
\* only when it fails none; bs_put_greeks was called, once, exactly for a
\* contract that passed moneyness, bid and spread; the monthly return decided
\* only for a contract whose delta is inside the band; and a contract that
\* ended at a check left results as it was.
C18_FilterOrder ==
    last.stage # "none" =>
        /\ last.stage = "moneyness" <=> is_itm(last.put, quote)
        /\ last.stage = "bid" <=> ~is_itm(last.put, quote) /\ no_bid(last.put)
        /\ last.stage = "spread" <=>
               /\ ~is_itm(last.put, quote) /\ ~no_bid(last.put)
               /\ wide_spread(last.put)
        /\ Len(last.calls) = (IF PassedEarly THEN 1 ELSE 0)
        /\ last.stage \in PricedStages <=> PassedEarly
        /\ last.stage = "delta" <=>
               PassedEarly /\ delta_out_of_band(last.greeks, args)
        /\ last.stage = "return" <=>
               /\ PassedEarly /\ ~delta_out_of_band(last.greeks, args)
               /\ LowReturn
        /\ last.stage = "accept" <=>
               /\ PassedEarly /\ ~delta_out_of_band(last.greeks, args)
               /\ ~LowReturn
        /\ last.stage # "accept" => Rejected

\* A contract whose delta is outside the band and whose monthly return is
\* below the minimum has been priced and has ended at the delta check.
C18_Witness ==
    /\ last.stage = "delta"
    /\ Len(last.calls) = 1
    /\ delta_out_of_band(last.greeks, args)
    /\ LowReturn
    /\ Rejected

\* C19: every call of bs_put_greeks made for a contract is given a volatility
\* above zero: the contract's implied volatility when that is above zero and
\* 0.30 when it is not, so the call never takes the pricer's guard on
\* sigma <= 0.
C19_VolatilityResolved ==
    last.stage # "none" =>
        \A k \in 1..Len(last.calls) :
            /\ DGt(last.calls[k].sigma, 0)
            /\ last.calls[k].sigma =
                   (IF DGt(last.put.implied_vol, 0) THEN last.put.implied_vol
                    ELSE 300)
            /\ ~DLe(last.calls[k].sigma, 0)

\* bs_put_greeks has been called with sigma = 0.30 and T > 0 for a contract
\* whose implied volatility is zero.
C19_Witness ==
    /\ last.stage \in PricedStages
    /\ last.put.implied_vol = 0
    /\ Len(last.calls) = 1
    /\ last.calls[1].sigma = 300
    /\ last.calls[1].T > 0

\* The candidates gathered so far in the order the ranker gets them: the list
\* handed to print_results once it has been called, and before that the list
\* of main followed by the one screen_ticker is filling.
Gathered == IF pc = "done" THEN discovered ELSE insert_at_end(all_results, results)

\* Candidate a comes ahead of candidate b in the watchlist, or with the same
\* underlying in its expirations, or with the same expiration in its chain.
SuppliedBefore(a, b) ==
    \/ a.ticker < b.ticker
    \/ a.ticker = b.ticker /\ a.expiration < b.expiration
    \/ a.ticker = b.ticker /\ a.expiration = b.expiration /\ a.contract < b.contract

\* C20: up to the sort the gathered candidates are the accepted contracts, one
\* for one and in the order of the watchlist, within an underlying of its
\* expirations and within an expiration of its contracts.
C20_DiscoveryOrder ==
    /\ Len(Gathered) = Len(accepted)
    /\ \A k \in 1..Len(accepted) :
          /\ Gathered[k].ticker = accepted[k].symbol
          /\ Gathered[k].expiration = accepted[k].exp
          /\ Gathered[k].strike = accepted[k].put.strike
          /\ Gathered[k].bid = accepted[k].put.bid
          /\ Gathered[k].ask = accepted[k].put.ask
          /\ accepted[k].symbol = tickers[accepted[k].ticker]
    /\ \A j, k \in 1..Len(accepted) :
          j < k => SuppliedBefore(accepted[j], accepted[k])

\* The ranker has been handed two candidates, the first one of the first
\* underlying of the watchlist and the second one of the second.
C20_Witness ==
    /\ pc = "done"
    /\ Len(discovered) = 2
    /\ accepted[1].ticker = 1 /\ accepted[2].ticker = 2
    /\ discovered[1].ticker = tickers[1] /\ discovered[2].ticker = tickers[2]
    /\ tickers[1] # tickers[2]

\* The five fundamentals that enter the quality score.
Metrics == {"gross_margin", "operating_margin", "fcf_yield", "revenue_growth", "pe_ratio"}

\* The tier adjustment of a metric whose value v (in percent, P/E as a ratio,
\* both times FP) is not zero.
stated_tier(metric, v) ==
    IF metric = "gross_margin"
    THEN (IF v >= 60 * FP THEN 12 ELSE IF v >= 40 * FP THEN 6
          ELSE IF v < 20 * FP /\ v > 0 THEN -8 ELSE 0)
    ELSE IF metric = "operating_margin"
    THEN (IF v >= 25 * FP THEN 10 ELSE IF v >= 15 * FP THEN 5
          ELSE IF v < 0 THEN -10 ELSE 0)
    ELSE IF metric = "fcf_yield"
    THEN (IF v >= 5 * FP THEN 10 ELSE IF v >= 2 * FP THEN 5
          ELSE IF v < 0 THEN -8 ELSE 0)
    ELSE IF metric = "revenue_growth"
    THEN (IF v >= 20 * FP THEN 10 ELSE IF v >= 10 * FP THEN 5
          ELSE IF v < 0 THEN -8 ELSE 0)
    ELSE (IF v > 0 /\ v <= 25 * FP THEN 8
          ELSE IF v > 25 * FP /\ v <= 50 * FP THEN 2
          ELSE IF v > 100 * FP \/ v < 0 THEN -5 ELSE 0)

\* The adjustment of a metric when a value of exactly zero counts for nothing.
stated_adjustment(q, metric) ==
    IF q[metric] = 0 THEN 0 ELSE stated_tier(metric, q[metric])

\* 50 and the adjustments of the five metrics, a zero one counting for nothing.
stated_quality(q) ==
    50 + stated_adjustment(q, "gross_margin") + stated_adjustment(q, "operating_margin")
       + stated_adjustment(q, "fcf_yield") + stated_adjustment(q, "revenue_growth")
       + stated_adjustment(q, "pe_ratio")

\* C21: for a quote with a metric of exactly zero compute_quality_score returns
\* 50 plus the adjustments of the metrics that are not zero, so the zero
\* metric adds and takes nothing; with all five at zero it returns exactly 50,
\* and with a gross margin of zero it returns 8 more than with a gross margin
\* of 10 and the same other metrics.
C21_ZeroNeutral ==
    pc = "return_quality" =>
        /\ (\E m \in Metrics : pin[m] = 0) => pout = stated_quality(pin)
        /\ (\A m \in Metrics : pin[m] = 0) => pout = 50
        /\ pin.gross_margin = 0 =>
               pout = compute_quality_score([pin EXCEPT !.gross_margin = 10 * FP]) + 8

\* compute_quality_score has returned 50 for a quote whose five fundamentals
\* are all zero.
C21_Witness ==
    /\ pc = "return_quality"
    /\ \A m \in Metrics : pin[m] = 0
    /\ pout = 50

\* What a metric adds to the returned score: the score less the score of the
\* same quote with that metric at zero.
Contribution(q, metric) ==
    compute_quality_score(q) - compute_quality_score([q EXCEPT ![metric] = 0])

\* C22: for every fundamentals input gross margin contributes 12, 6, 0 or -8,
\* operating margin 10, 5, 0 or -10, FCF yield and revenue growth 10, 5, 0 or
\* -8 and P/E 8, 2, 0 or -5, each the stated tier; 50 plus the five lies
\* between 11 and 100, and the clamp leaves it as it is: the returned score is
\* that sum.
C22_ClampIsIdentity ==
    pc = "return_quality" =>
        /\ Contribution(pin, "gross_margin") \in {12, 6, 0, -8}
        /\ Contribution(pin, "operating_margin") \in {10, 5, 0, -10}
        /\ Contribution(pin, "fcf_yield") \in {10, 5, 0, -8}
        /\ Contribution(pin, "revenue_growth") \in {10, 5, 0, -8}
        /\ Contribution(pin, "pe_ratio") \in {8, 2, 0, -5}
        /\ \A m \in Metrics : Contribution(pin, m) = stated_adjustment(pin, m)
        /\ stated_quality(pin) \in 11..100
        /\ 50 + quality_points(pin) \in 11..100
        /\ pout = 50 + quality_points(pin)
        /\ pout = stated_quality(pin)

\* compute_quality_score has returned 100, every metric in its best tier, the
\* value at which a tighter clamp would cut.
C22_Witness ==
    /\ pc = "return_quality"
    /\ pin.gross_margin >= 60 * FP /\ pin.operating_margin >= 25 * FP
    /\ pin.fcf_yield >= 5 * FP /\ pin.revenue_growth >= 20 * FP
    /\ pin.pe_ratio > 0 /\ pin.pe_ratio <= 25 * FP
    /\ pout = 100

InExecutor == pc \in {"exec_loop", "exec_return"}

\* The sum of strike * 100 over the results r.
RECURSIVE SumCollateral(_)
SumCollateral(r) ==
    IF r = <<>> THEN 0
    ELSE DAdd(SumCollateral(SubSeq(r, 1, Len(r) - 1)), DMulI(r[Len(r)].strike, 100))

\* The number of executed trades is at most max(maxPositions, 0).
WithinPositions ==
    Len(executor.results) <= (IF pin.maxPositions > 0 THEN pin.maxPositions ELSE 0)

\* The executed trades are trades of the input at increasing places, and every
\* trade ahead of the loop index was either executed or skipped.
InInputOrder ==
    /\ Len(executor.taken) = Len(executor.results)
    /\ \A k \in 1..Len(executor.taken) :
          /\ executor.taken[k] \in 1..Len(pin.trades)
          /\ executor.results[k].symbol = pin.trades[executor.taken[k]].ticker
          /\ executor.results[k].strike = pin.trades[executor.taken[k]].strike
          /\ executor.results[k].expiry = pin.trades[executor.taken[k]].exp
    /\ \A j, k \in 1..Len(executor.taken) :
          j < k => executor.taken[j] < executor.taken[k]
    /\ \A j \in 1..(executor.i - 1) :
          \/ \E k \in 1..Len(executor.taken) : executor.taken[k] = j
          \/ \E k \in 1..Len(executor.skipped) : executor.skipped[k].index = j

\* A skipped trade would have taken the total above maxCollateral, and the
\* loop has ended only at the end of the trades or at maxPositions.
SkippedNotEnded ==
    /\ \A k \in 1..Len(executor.skipped) :
          DGt(DAdd(executor.skipped[k].total,
                   DMulI(pin.trades[executor.skipped[k].index].strike, 100)),
              pin.maxCollateral)
    /\ pc = "exec_return" =>
          \/ executor.i > Len(pin.trades)
          \/ Len(executor.results) >= pin.maxPositions

\* C23 as stated: after any prefix of the loop, for every trade list,
\* maxPositions and maxCollateral, the executed trades number at most
\* max(maxPositions, 0), the sum of strike * 100 over them is at most
\* maxCollateral, a trade that would exceed maxCollateral is skipped without
\* ending the loop, and the executed trades are a subsequence of the input.
C23_ExecutorCapsAsStated ==
    InExecutor =>
        /\ WithinPositions
        /\ DLe(SumCollateral(executor.results), pin.maxCollateral)
        /\ SkippedNotEnded
        /\ InInputOrder

\* maxCollateral and strike * 100 of every trade the loop has been through are
\* finite numbers.
FiniteSoFar ==
    /\ IsFinite(pin.maxCollateral)
    /\ \A j \in 1..(executor.i - 1) : IsFinite(DMulI(pin.trades[j].strike, 100))

\* C23: after any prefix of the loop the executed trades number at most
\* max(maxPositions, 0), are a subsequence of the input in input order, and a
\* skipped trade is one that would have exceeded maxCollateral and did not end
\* the loop; when maxCollateral and strike * 100 of the trades gone through
\* are finite, the running total is the sum of strike * 100 over the executed
\* trades, which is zero while no trade has been executed and at most
\* maxCollateral once one has.
C23_ExecutorCaps ==
    InExecutor =>
        /\ WithinPositions
        /\ SkippedNotEnded
        /\ InInputOrder
        /\ FiniteSoFar =>
              /\ executor.totalCollateral = SumCollateral(executor.results)
              /\ executor.results = <<>> => SumCollateral(executor.results) = 0
              /\ executor.results # <<>> =>
                     DLe(SumCollateral(executor.results), pin.maxCollateral)

\* executeFromScreener has returned for finite inputs after it skipped the
\* second trade, which would have exceeded maxCollateral, and executed the
\* third.
C23_Witness ==
    /\ pc = "exec_return"
    /\ FiniteSoFar
    /\ executor.taken = <<1, 3>>
    /\ Len(executor.skipped) = 1 /\ executor.skipped[1].index = 2
    /\ pout = executor.results
    /\ SumCollateral(pout) <= pin.maxCollateral
====
